---- MODULE Spec2Model ----
(***************************************************************************)
(* Model of bevy_serde_macros (src/src/lib.rs): saving the components of   *)
(* the marker-carrying entities of a World as a JSON map, one key per      *)
(* component type, and loading such a map back through an EntityMapper.    *)
(*                                                                         *)
(* Library behaviour the source relies on and the model assumes:          *)
(*  - an Entity serialises as the integer Entity::to_bits and is read     *)
(*    back by Entity::from_bits (the test's expected JSON, lib.rs:269);    *)
(*    every entity of the model has generation 0, so its bits are its      *)
(*    index;                                                               *)
(*  - EntityMapper::get_or_reserve returns the identity the map already    *)
(*    holds for its argument, or an identity in use nowhere, which it      *)
(*    records in the map; which unused identity is not fixed by the        *)
(*    source, so the model chooses any;                                    *)
(*  - a query iterates in ascending entity index.                          *)
(***************************************************************************)
EXTENDS Integers, Sequences, FiniteSets, TLC

\* Largest number of entities a store is given (indices 0 .. MaxEntities-1).
MaxEntities == 2

VARIABLES
    world,               \* the World: Entity -> [marker, comps]
    pc,                  \* "build", "saved", "save_panicked", "loading", "done", "panicked"
    save_data,           \* what save_game returned (NoDoc before the first save)
    src,                 \* the World as it was when save_game ran
    pre,                 \* the World as it was when load_game was called
    load_data,           \* the bytes load_game was given, as the JSON value they spell
    entity_map,          \* load_game's HashMap<Entity, Entity>
    component_value_map, \* load_game's HashMap<String, Value>
    todo,                \* component types the macro in progress has yet to expand
    cur,                 \* the component name of the deserialize call in progress
    entity_comps,        \* rows the call in progress has yet to revive
    resolved             \* every get_or_reserve call of this load: [raw, live, ty]

vars == <<world, pc, save_data, src, pre, load_data, entity_map, component_value_map,
          todo, cur, entity_comps, resolved>>

-----------------------------------------------------------------------------
(* Entities *)

Ent(i) == [index |-> i, generation |-> 0]

EntityIds == {Ent(i) : i \in 0 .. MaxEntities - 1}

\* Entity::to_bits for a generation-0 entity, and Entity::from_bits.
to_bits(e) == e.index

from_bits(n) == [index |-> n, generation |-> 0]

-----------------------------------------------------------------------------
(* Component types and values *)

\* stringify!($comp_type) of the type list, as path segments.
TypeList ==
    << <<"tests", "Component1">>, <<"tests", "Component2">>,
       <<"tests", "Component3">>, <<"tests", "ComponentNotUsed">> >>

\* comp_name_fq.rsplit("::").next(): the last path segment.
comp_name(fq) == fq[Len(fq)]

RegisteredNames == {comp_name(TypeList[i]) : i \in 1 .. Len(TypeList)}

Component1 == [unit |-> "Component1"]

ATest(s) == [variant |-> "ATest", f0 |-> s]

CTest == [variant |-> "CTest"]

TestEnums == {ATest("test"), CTest}

Component2(t) == [target |-> t]

Component3(t, en) == [target |-> t, test_enum |-> en]

\* The types that embed an Entity.
RefTypes == {"Component2", "Component3"}

\* The values a component of a type can be given in store w.
ValuesOf(name, w) ==
    CASE name = "Component1" -> {Component1}
      [] name = "Component2" -> {Component2(t) : t \in DOMAIN w}
      [] name = "Component3" -> {Component3(t, en) : t \in DOMAIN w, en \in TestEnums}
      [] OTHER -> {}

-----------------------------------------------------------------------------
(* serde_json::Value *)

JNull == [j |-> "null"]

JNum(n) == [j |-> "num", n |-> n]

JStr(s) == [j |-> "str", s |-> s]

JArr(q) == [j |-> "arr", a |-> q]

JObj(f) == [j |-> "obj", o |-> f]

\* The default for a missing key, were it null and not the empty array.
EMPTY_JS_NULL == JNull

EMPTY_JS_ARRAY == JArr(<<>>)

Ok(x) == [ok |-> TRUE, val |-> x]

Err == [ok |-> FALSE]

EmptyMap == [x \in {} |-> x]

Put(f, k, v) == [x \in DOMAIN f \cup {k} |-> IF x = k THEN v ELSE f[x]]

\* Remove, the entry read and left in the map.
RemoveNothing(f, k) == f

Remove(f, k) == [x \in DOMAIN f \ {k} |-> f[x]]

Range(f) == {f[x] : x \in DOMAIN f}

NoDoc == [none |-> TRUE]

-----------------------------------------------------------------------------
(* Encoding: the derived Serialize impls *)

EntitySerialize(e) == JNum(to_bits(e))

TestEnumSerialize(en) ==
    IF en.variant = "ATest" THEN JObj("ATest" :> JStr(en.f0)) ELSE JStr(en.variant)

to_value(name, c) ==
    CASE name = "Component2" -> JObj("target" :> EntitySerialize(c.target))
      [] name = "Component3" ->
            JObj("target" :> EntitySerialize(c.target)
                 @@ "test_enum" :> TestEnumSerialize(c.test_enum))
      [] OTHER -> JNull

\* serde_json::to_value of one (Entity, &C) item.
RowToValue(name, row) == JArr(<<EntitySerialize(row[1]), to_value(name, row[2])>>)

-----------------------------------------------------------------------------
(* Decoding: the derived Deserialize impls *)

EntityDeserialize(v) == IF v.j = "num" THEN Ok(from_bits(v.n)) ELSE Err

TestEnumDeserialize(v) ==
    IF v.j = "str"
    THEN IF v.s = "CTest" THEN Ok(CTest) ELSE Err
    ELSE IF v.j = "obj" /\ DOMAIN v.o = {"ATest"} /\ v.o["ATest"].j = "str"
         THEN Ok(ATest(v.o["ATest"].s))
         ELSE Err

from_value(name, v) ==
    CASE name = "Component2" ->
            IF v.j = "obj" /\ "target" \in DOMAIN v.o /\ EntityDeserialize(v.o["target"]).ok
            THEN Ok(Component2(EntityDeserialize(v.o["target"]).val))
            ELSE Err
      [] name = "Component3" ->
            IF /\ v.j = "obj"
               /\ {"target", "test_enum"} \subseteq DOMAIN v.o
               /\ EntityDeserialize(v.o["target"]).ok
               /\ TestEnumDeserialize(v.o["test_enum"]).ok
            THEN Ok(Component3(EntityDeserialize(v.o["target"]).val,
                               TestEnumDeserialize(v.o["test_enum"]).val))
            ELSE Err
      [] name = "Component1" -> IF v.j = "null" THEN Ok(Component1) ELSE Err
      [] OTHER -> IF v.j = "null" THEN Ok([unit |-> name]) ELSE Err

\* from_value of the whole sequence, the rows that do not decode dropped.
from_value_vec_skip_bad(name, v) ==
    IF v.j = "arr"
    THEN LET F[i \in 0 .. Len(v.a)] ==
                 IF i = 0 THEN <<>>
                 ELSE IF /\ v.a[i].j = "arr"
                         /\ Len(v.a[i].a) = 2
                         /\ EntityDeserialize(v.a[i].a[1]).ok
                         /\ from_value(name, v.a[i].a[2]).ok
                      THEN Append(F[i - 1], <<EntityDeserialize(v.a[i].a[1]).val,
                                              from_value(name, v.a[i].a[2]).val>>)
                      ELSE F[i - 1]
         IN  Ok(F[Len(v.a)])
    ELSE Err

RowOk(name, r) ==
    /\ r.j = "arr"
    /\ Len(r.a) = 2
    /\ EntityDeserialize(r.a[1]).ok
    /\ from_value(name, r.a[2]).ok

\* serde_json::from_value::<Vec<(Entity, C)>>: every row decodes, or the call fails.
from_value_vec(name, v) ==
    IF v.j = "arr" /\ \A i \in 1 .. Len(v.a) : RowOk(name, v.a[i])
    THEN Ok([i \in 1 .. Len(v.a) |->
                <<EntityDeserialize(v.a[i].a[1]).val, from_value(name, v.a[i].a[2]).val>>])
    ELSE Err

-----------------------------------------------------------------------------
(* Save *)

\* With, the filter left out: every entity passes.
WithAny(w, e) == TRUE

\* The With<M> filter of the query.
With(w, e) == w[e].marker

\* QueryIter, the first entity of the store skipped.
QueryIterSkipFirst(w, name) ==
    LET F[i \in 1 .. MaxEntities] ==
            IF i = 1 THEN <<>>
            ELSE IF /\ Ent(i - 1) \in DOMAIN w
                    /\ w[Ent(i - 1)].marker
                    /\ name \in DOMAIN w[Ent(i - 1)].comps
                 THEN Append(F[i - 1], <<Ent(i - 1), w[Ent(i - 1)].comps[name]>>)
                 ELSE F[i - 1]
    IN  F[MaxEntities]

\* self.iter(world).collect(): the (Entity, &C) items of the entities that hold
\* both the marker and the component.
QueryIter(w, name) ==
    LET F[i \in 0 .. MaxEntities] ==
            IF i = 0 THEN <<>>
            ELSE IF /\ Ent(i - 1) \in DOMAIN w
                    /\ With(w, Ent(i - 1))
                    /\ name \in DOMAIN w[Ent(i - 1)].comps
                 THEN Append(F[i - 1], <<Ent(i - 1), w[Ent(i - 1)].comps[name]>>)
                 ELSE F[i - 1]
    IN  F[MaxEntities]

\* serialize, the empty case not told apart: Some(array) even for no item.
serializeAlwaysSome(w, name) ==
    LET comp_data == QueryIter(w, name)
    IN  [some |-> TRUE,
         val |-> JArr([i \in 1 .. Len(comp_data) |-> RowToValue(name, comp_data[i])])]

\* SerializeComponents::serialize: None for no item, else Some(array of rows).
serialize(w, name) ==
    LET comp_data == QueryIter(w, name)
    IN  IF comp_data = <<>>
        THEN [some |-> FALSE]
        ELSE [some |-> TRUE,
              val |-> JArr([i \in 1 .. Len(comp_data) |-> RowToValue(name, comp_data[i])])]

\* serialize_individually!, a key inserted for every type, an empty array for None.
serialize_individually_all_keys(w) ==
    LET F[i \in 0 .. Len(TypeList)] ==
            IF i = 0 THEN EmptyMap
            ELSE LET name == comp_name(TypeList[i])
                     res == serialize(w, name)
                 IN  Put(F[i - 1], name, IF res.some THEN res.val ELSE EMPTY_JS_ARRAY)
    IN  F[Len(TypeList)]

\* serialize_individually!: a key is inserted only for Some(comp_data).
serialize_individually(w) ==
    LET F[i \in 0 .. Len(TypeList)] ==
            IF i = 0 THEN EmptyMap
            ELSE LET name == comp_name(TypeList[i])
                     res == serialize(w, name)
                 IN  IF res.some THEN Put(F[i - 1], name, res.val) ELSE F[i - 1]
    IN  F[Len(TypeList)]

\* The component types whose Serialize impl returns an error. The impl is a
\* parameter of the generic code (C: Component + Serialize); at most one fails.
FailingImpls == {{}} \cup {{n} : n \in RegisteredNames}

\* serialize returns Err: serde_json::to_value fails on an item of the type.
\* With no item nothing is encoded and serialize returns Ok(None).
serialize_fails(w, name, bad) == name \in bad /\ QueryIter(w, name) # <<>>

\* The place in the type list of the first type whose comp_data_res.unwrap()
\* panics, 0 when none does.
FirstFailure(w, bad) ==
    LET S == {i \in 1 .. Len(TypeList) : serialize_fails(w, comp_name(TypeList[i]), bad)}
    IN  IF S = {} THEN 0 ELSE CHOOSE i \in S : \A k \in S : i <= k

\* written, the map written to the output type by type: a panic leaves the
\* keys of the types before it.
written_streaming(w, bad) ==
    LET F[i \in 0 .. Len(TypeList)] ==
            IF i = 0 THEN EmptyMap
            ELSE LET name == comp_name(TypeList[i])
                     res == serialize(w, name)
                 IN  IF res.some THEN Put(F[i - 1], name, res.val) ELSE F[i - 1]
    IN  IF FirstFailure(w, bad) = 0 THEN F[Len(TypeList)] ELSE F[FirstFailure(w, bad) - 1]

\* What the writer holds when serialize_individually! ends: data_map is
\* serialised after the last type, so a panic before leaves the writer empty.
written(w, bad) == IF FirstFailure(w, bad) = 0 THEN serialize_individually(w) ELSE NoDoc

\* query_filtered, stripping the marker of the entities it selected.
query_filtered_unmarking(w) == [e \in DOMAIN w |-> [marker |-> FALSE, comps |-> w[e].comps]]

\* $world.query_filtered::<(Entity, &C), With<M>>(): it takes &mut World to
\* build the QueryState and leaves entities, components and markers alone.
query_filtered(w) == w

-----------------------------------------------------------------------------
(* The store *)

EmptyWorld == [e \in {} |-> e]

\* The bundles world.spawn is given: any set of components, each referring to
\* entities the store already holds.
Bundles(w) ==
    UNION {
        {b \in [S -> UNION {ValuesOf(n, w) : n \in S}] : \A n \in S : b[n] \in ValuesOf(n, w)}
        : S \in SUBSET {"Component1", "Component2", "Component3"}}

\* clear_entities, despawning the marker-carrying entities only.
clear_marked_only(w) == [e \in {x \in DOMAIN w : ~w[x].marker} |-> w[e]]

\* world.clear_entities().
clear_entities(w) == EmptyWorld

\* The identities get_or_reserve may hand out for a raw identity it has not seen.
Unused(w, map) == EntityIds \ (DOMAIN w \cup Range(map))

\* get_or_reserve, the lookup left out: a new identity on every call.
get_or_reserve_always_new(w, map, entity) == Unused(w, map)

\* get_or_reserve, reserving an identity that may be in use already.
get_or_reserve_any(w, map, entity) ==
    IF entity \in DOMAIN map THEN {map[entity]} ELSE EntityIds

\* EntityMapper::get_or_reserve: the identities it may return.
get_or_reserve(w, map, entity) ==
    IF entity \in DOMAIN map THEN {map[entity]} ELSE Unused(w, map)

\* world.entity_mut(new_entity).insert((comp, marker)).
\* insert, of the component alone: the marker of the entity is left as it is.
insert_no_marker(w, e, name, comp) ==
    Put(w, e, [marker |-> IF e \in DOMAIN w THEN w[e].marker ELSE FALSE,
               comps |-> IF e \in DOMAIN w THEN Put(w[e].comps, name, comp)
                         ELSE name :> comp])

insert(w, e, name, comp) ==
    Put(w, e, [marker |-> TRUE,
               comps |-> IF e \in DOMAIN w THEN Put(w[e].comps, name, comp)
                         ELSE name :> comp])

-----------------------------------------------------------------------------
(* Load *)

\* from_slice, refusing a key that names no registered type.
from_slice_deny_unknown(b) ==
    IF b.j = "obj" /\ DOMAIN b.o \subseteq RegisteredNames THEN Ok(b.o) ELSE Err

\* serde_json::from_slice::<HashMap<String, Value>>: the bytes must spell a
\* JSON object, whatever its keys.
from_slice(b) == IF b.j = "obj" THEN Ok(b.o) ELSE Err

\* unwrap, the error dropped: the load goes on.
after_unwrap_ignoring(ok) == "loading"

\* .unwrap() of a Result inside load_game: a panic on Err.
after_unwrap(ok) == IF ok THEN "loading" ELSE "panicked"

\* A key no registered type has, and the rows under it.
UnknownKey == "ComponentOld"

UnknownRows == JArr(<<JArr(<<JNum(0), JNull>>)>>)

\* A row whose value no registered type decodes.
MalformedRow == JArr(<<JNum(0), JStr("bad")>>)

\* The bytes load_game may be given after a save that wrote doc: the save's
\* output, that output with an unknown key added, with a malformed row
\* appended to one type's rows, or bytes that spell no JSON object.
LoadInputs(doc) ==
    {JObj(doc)}
    \cup {JObj(Put(doc, UnknownKey, UnknownRows))}
    \cup {JObj(Put(doc, n, JArr(Append(doc[n].a, MalformedRow)))) : n \in DOMAIN doc}
    \cup {EMPTY_JS_ARRAY}

-----------------------------------------------------------------------------
(* Initial state and actions *)

Init ==
    /\ world = EmptyWorld
    /\ pc = "build"
    /\ save_data = NoDoc
    /\ src = EmptyWorld
    /\ pre = EmptyWorld
    /\ load_data = JNull
    /\ entity_map = EmptyMap
    /\ component_value_map = EmptyMap
    /\ todo = <<>>
    /\ cur = "none"
    /\ entity_comps = <<>>
    /\ resolved = <<>>

\* world.spawn(bundle).
Spawn ==
    /\ pc = "build"
    /\ Cardinality(DOMAIN world) < MaxEntities
    /\ \E b \in Bundles(world) :
          world' = Put(world, Ent(Cardinality(DOMAIN world)), [marker |-> FALSE, comps |-> b])
    /\ UNCHANGED <<pc, save_data, src, pre, load_data, entity_map, component_value_map,
                   todo, cur, entity_comps, resolved>>

\* world.get_entity_mut(e).unwrap().insert(SerializeMe).
InsertMarker ==
    /\ pc = "build"
    /\ \E e \in DOMAIN world :
          /\ ~world[e].marker
          /\ world' = [world EXCEPT ![e].marker = TRUE]
    /\ UNCHANGED <<pc, save_data, src, pre, load_data, entity_map, component_value_map,
                   todo, cur, entity_comps, resolved>>

\* world.clear_all(), before a save or between a save and a load.
ClearAll ==
    /\ pc \in {"build", "saved"}
    /\ world # EmptyWorld
    /\ world' = EmptyWorld
    /\ UNCHANGED <<pc, save_data, src, pre, load_data, entity_map, component_value_map,
                   todo, cur, entity_comps, resolved>>

\* save_game(&mut world).
SaveGame ==
    /\ pc = "build"
    /\ \E bad \in FailingImpls :
          /\ save_data' = written(world, bad)
          /\ pc' = IF FirstFailure(world, bad) = 0 THEN "saved" ELSE "save_panicked"
          /\ todo' = IF FirstFailure(world, bad) = 0 THEN <<>>
                     ELSE SubSeq(TypeList, FirstFailure(world, bad) + 1, Len(TypeList))
    /\ world' = query_filtered(world)
    /\ src' = world
    /\ UNCHANGED <<pre, load_data, entity_map, component_value_map,
                   cur, entity_comps, resolved>>

\* load_game up to the macro call: clear_entities, a new entity_map, from_slice
\* and its unwrap.
LoadBegin ==
    /\ pc = "saved"
    /\ pre' = world
    /\ world' = clear_entities(world)
    /\ entity_map' = EmptyMap
    /\ \E b \in LoadInputs(save_data) :
          /\ load_data' = b
          /\ component_value_map' = IF from_slice(b).ok THEN from_slice(b).val ELSE EmptyMap
          /\ pc' = after_unwrap(from_slice(b).ok)
    /\ todo' = TypeList
    /\ resolved' = <<>>
    /\ UNCHANGED <<save_data, src, cur, entity_comps>>

\* deserialize::<C, _> up to world_scope: remove the key, decode the rows.
\* A decode error is returned and unwrapped by the macro: the load panics.
Deserialize ==
    /\ pc = "loading"
    /\ cur = "none"
    /\ todo # <<>>
    /\ LET name == comp_name(Head(todo))
           comp_vec_value == IF name \in DOMAIN component_value_map
                             THEN component_value_map[name]
                             ELSE EMPTY_JS_ARRAY
           dec == from_value_vec(name, comp_vec_value)
       IN  /\ component_value_map' = Remove(component_value_map, name)
           /\ todo' = Tail(todo)
           /\ pc' = after_unwrap(dec.ok)
           /\ entity_comps' = IF dec.ok THEN dec.val ELSE <<>>
           /\ cur' = IF dec.ok /\ dec.val # <<>> THEN name ELSE "none"
    /\ UNCHANGED <<world, save_data, src, pre, load_data, entity_map, resolved>>

\* One iteration of revive_or_rejuv_entity's for_each; world_scope returns
\* after the last one.
Revive ==
    /\ pc = "loading"
    /\ cur # "none"
    /\ entity_comps # <<>>
    /\ LET entity == Head(entity_comps)[1]
           comp == Head(entity_comps)[2]
       IN  \E new_entity \in get_or_reserve(world, entity_map, entity) :
              /\ entity_map' = Put(entity_map, entity, new_entity)
              /\ world' = insert(world, new_entity, cur, comp)
              /\ resolved' = Append(resolved, [raw |-> entity, live |-> new_entity, ty |-> cur])
    /\ entity_comps' = Tail(entity_comps)
    /\ cur' = IF Tail(entity_comps) = <<>> THEN "none" ELSE cur
    /\ UNCHANGED <<pc, save_data, src, pre, load_data, component_value_map, todo>>

\* load_game returns.
LoadDone ==
    /\ pc = "loading"
    /\ cur = "none"
    /\ todo = <<>>
    /\ pc' = "done"
    /\ UNCHANGED <<world, save_data, src, pre, load_data, entity_map, component_value_map,
                   todo, cur, entity_comps, resolved>>

Next ==
    \/ Spawn
    \/ InsertMarker
    \/ ClearAll
    \/ SaveGame
    \/ LoadBegin
    \/ Deserialize
    \/ Revive
    \/ LoadDone

-----------------------------------------------------------------------------
(* Properties *)

Marked(w) == {e \in DOMAIN w : w[e].marker}

\* save_game has returned a Document.
Saved == pc \notin {"build", "save_panicked"}

\* The Document load_game parsed from the bytes it was given.
Doc == load_data.o

\* The load in progress was given exactly what save_game wrote.
Untampered == load_data = JObj(save_data)

\* The rows a Document holds under a component name.
RowsOf(doc, name) == IF name \in DOMAIN doc THEN doc[name].a ELSE <<>>

\* The marker-carrying entities of w that hold component name.
Holders(w, name) == {e \in Marked(w) : name \in DOMAIN w[e].comps}

Injective(f) == \A a, b \in DOMAIN f : a # b => f[a] # f[b]

\* The raw identities a Document mentions under registered types, as the owner
\* of a row or as the value of an entity-typed field.
OwnerIds(doc) ==
    {from_bits(RowsOf(doc, n)[i].a[1].n) :
        <<n, i>> \in {p \in RegisteredNames \X (1 .. MaxEntities + 1) : p[2] <= Len(RowsOf(doc, p[1]))}}

ReferencedIds(doc) ==
    {from_bits(RowsOf(doc, n)[i].a[2].o["target"].n) :
        <<n, i>> \in {p \in RefTypes \X (1 .. MaxEntities + 1) : p[2] <= Len(RowsOf(doc, p[1]))}}

\* A reconstructed component d equals the source component c, its entity field
\* rewritten through the remap table.
SameUpToRemap(name, c, d) ==
    IF name \in RefTypes
    THEN /\ c.target \in DOMAIN entity_map
         /\ d.target = entity_map[c.target]
         /\ (name = "Component3" => d.test_enum = c.test_enum)
    ELSE d = c

\* C1: after save then load into a fresh store, the marker-carrying entities of
\* the source and of the result are in bijection under the remap table, each
\* holding the same components, every entity field rewritten through the table.
C1_RoundTrip ==
    (pc = "done" /\ pre = EmptyWorld /\ Untampered) =>
        /\ Marked(src) \subseteq DOMAIN entity_map
        /\ \A a, b \in Marked(src) : a # b => entity_map[a] # entity_map[b]
        /\ {entity_map[e] : e \in Marked(src)} = Marked(world)
        /\ \A e \in Marked(src) :
              /\ DOMAIN world[entity_map[e]].comps = DOMAIN src[e].comps
              /\ \A n \in DOMAIN src[e].comps :
                    SameUpToRemap(n, src[e].comps[n], world[entity_map[e]].comps[n])

\* C2: when components A on E and B on F reference the same entity G in the
\* source, the reconstructed A and B both hold the live identity the remap
\* table assigns to G.
C2_ReferentialConsistency ==
    (pc = "done" /\ Untampered) =>
        \A E, F \in Marked(src) : \A A, B \in RefTypes :
            ( /\ A \in DOMAIN src[E].comps
              /\ B \in DOMAIN src[F].comps
              /\ <<E, A>> # <<F, B>>
              /\ src[E].comps[A].target = src[F].comps[B].target )
            => /\ src[E].comps[A].target \in DOMAIN entity_map
               /\ world[entity_map[E]].comps[A].target = entity_map[src[E].comps[A].target]
               /\ world[entity_map[F]].comps[B].target = entity_map[src[E].comps[A].target]

\* C3: within one load, any two resolutions of the same raw identity return the
\* same live identity, also when they happen while decoding different types.
C3_ResolveIdempotent ==
    \A i, j \in 1 .. Len(resolved) :
        resolved[i].raw = resolved[j].raw => resolved[i].live = resolved[j].live

\* A raw identity has been resolved while decoding two different component types.
C3_Witness ==
    \E i, j \in 1 .. Len(resolved) :
        resolved[i].raw = resolved[j].raw /\ resolved[i].ty # resolved[j].ty

\* C4: in every state of a load the remap table is injective.
C4_TableInjective ==
    pc \in {"loading", "done"} => Injective(entity_map)

\* A load in progress whose table holds two raw identities.
C4_Witness ==
    pc = "loading" /\ Cardinality(DOMAIN entity_map) >= 2

\* C5: when load returns, the remap table has an entry for every raw identity
\* of the Document, those that only occur as the value of an entity field
\* included.
C5_TableTotal ==
    pc = "done" => (OwnerIds(Doc) \cup ReferencedIds(Doc)) \subseteq DOMAIN entity_map

\* C6: no entity lacking the marker is the owner of a row of the saved Document.
C6_Exclusion ==
    Saved =>
        \A name \in DOMAIN save_data : \A i \in 1 .. Len(save_data[name].a) :
            \A e \in DOMAIN src :
                save_data[name].a[i].a[1] = JNum(e.index) => src[e].marker

\* A save of a store holding both a row-owning entity and an entity that holds
\* components but no marker.
C6_Witness ==
    /\ pc = "saved"
    /\ DOMAIN save_data # {}
    /\ \E e \in DOMAIN src : ~src[e].marker /\ DOMAIN src[e].comps # {}

\* C7 as stated: a save with no marker-carrying entity maps every registered
\* type to an empty sequence.
C7_StableSchema ==
    (Saved /\ Marked(src) = {}) =>
        \A name \in RegisteredNames :
            name \in DOMAIN save_data /\ save_data[name] = EMPTY_JS_ARRAY

\* C7 as amended: a save with no marker-carrying entity produces a Document
\* with no key at all.
C7_EmptySaveHasNoKey ==
    (Saved /\ Marked(src) = {}) => DOMAIN save_data = {}

\* A save of a store whose entities hold components and none the marker.
C7_Witness ==
    /\ pc = "saved"
    /\ Marked(src) = {}
    /\ \E e \in DOMAIN src : DOMAIN src[e].comps # {}

\* C8: a registered type is a key of the saved Document exactly when some
\* entity holds both the marker and a component of that type, and the Document
\* has no other key.
C8_KeyIffHolder ==
    Saved =>
        /\ DOMAIN save_data \subseteq RegisteredNames
        /\ \A name \in RegisteredNames :
              name \in DOMAIN save_data <=> Holders(src, name) # {}

\* A save whose Document has one registered type as a key and lacks another
\* that only an entity without the marker holds.
C8_Witness ==
    /\ pc = "saved"
    /\ \E n, m \in RegisteredNames :
          /\ n \in DOMAIN save_data
          /\ m \notin DOMAIN save_data
          /\ \E e \in DOMAIN src : m \in DOMAIN src[e].comps

\* C9: the sequence saved for a type holds exactly one row per entity holding
\* the marker and the component, no owner twice, and an embedded reference is
\* written as the referenced entity's raw identity, marked or not.
C9_ExactRows ==
    Saved =>
        \A name \in RegisteredNames :
            LET rows == RowsOf(save_data, name)
            IN  /\ Len(rows) = Cardinality(Holders(src, name))
                /\ \A i, k \in 1 .. Len(rows) : i # k => rows[i].a[1] # rows[k].a[1]
                /\ \A e \in Holders(src, name) :
                      \E i \in 1 .. Len(rows) :
                          /\ rows[i].a[1] = JNum(e.index)
                          /\ name \in RefTypes =>
                                rows[i].a[2].o["target"] = JNum(src[e].comps[name].target.index)
                          /\ name \notin RefTypes => rows[i].a[2] = JNull

\* A saved row whose embedded reference names an entity without the marker.
C9_Witness ==
    /\ pc = "saved"
    /\ \E name \in RefTypes : \E e \in Holders(src, name) :
          /\ ~src[src[e].comps[name].target].marker
          /\ Len(RowsOf(save_data, name)) >= 1

\* C10 as stated: every entity that lacks the marker before load still exists
\* after load, its components unchanged.
C10_UnmarkedUntouched ==
    pc = "done" => \A e \in DOMAIN pre : ~pre[e].marker => (e \in DOMAIN world /\ world[e] = pre[e])

\* C10 as amended: load clears every entity of the destination store, so from
\* the clearing on the store holds only entities load created, all carrying
\* the marker.
C10_LoadClearsAll ==
    pc \in {"loading", "done"} =>
        /\ DOMAIN world = Range(entity_map)
        /\ \A e \in DOMAIN world : world[e].marker

\* A load that was given a store holding an entity without the marker and has
\* rebuilt at least one entity.
C10_Witness ==
    /\ pc = "done"
    /\ \E e \in DOMAIN pre : ~pre[e].marker
    /\ world # EmptyWorld

\* The names of the component types whose deserialize call has been made.
DecodedNames == {comp_name(TypeList[i]) : i \in 1 .. Len(TypeList) - Len(todo)}

\* load_game is running or has ended, and its bytes spelled a JSON object.
Loaded == pc \in {"loading", "done", "panicked"} /\ load_data.j = "obj"

\* C11 as stated: after load into an empty store the store holds exactly one
\* live entity per raw identity the Document mentions as owner or as reference
\* value, and an identity that is only referenced gets an entity without
\* components.
C11_OrphanPlaceholder ==
    (pc = "done" /\ pre = EmptyWorld /\ Untampered) =>
        /\ (OwnerIds(Doc) \cup ReferencedIds(Doc)) \subseteq DOMAIN entity_map
        /\ Cardinality(DOMAIN world) = Cardinality(OwnerIds(Doc) \cup ReferencedIds(Doc))
        /\ \A raw \in ReferencedIds(Doc) \ OwnerIds(Doc) :
              /\ entity_map[raw] \in DOMAIN world
              /\ DOMAIN world[entity_map[raw]].comps = {}

\* C12 as stated: the Document load parsed holds the same keys and sequences
\* after decoding any number of types.
C12_DocumentUnchanged ==
    Loaded => component_value_map = Doc

\* C12 as amended: decoding a type removes that type's key from the parsed
\* Document and nothing else, so the map holds exactly the entries of the keys
\* that name no type decoded so far.
C12_DecodeConsumesKeys ==
    Loaded =>
        /\ DOMAIN component_value_map = DOMAIN Doc \ DecodedNames
        /\ \A k \in DOMAIN component_value_map : component_value_map[k] = Doc[k]

\* A load that has removed a key of the Document and has another left.
C12_Witness ==
    /\ pc = "loading"
    /\ load_data.j = "obj"
    /\ DOMAIN component_value_map # DOMAIN Doc
    /\ DOMAIN component_value_map # {}

\* C13: a save leaves the entities of the store, their components and their
\* markers as they were, whether it returns or panics.
C13_SavePure ==
    [][(pc = "build" /\ pc' \in {"saved", "save_panicked"}) => world' = world]_vars

\* A save that wrote rows, the store still as it was when the save began.
C13_Witness ==
    /\ pc = "saved"
    /\ DOMAIN save_data # {}
    /\ world = src
    /\ Marked(world) # {}

\* The position in the type list of the call that panicked, 0 when the panic
\* came from no call of the list.
FailedAt ==
    IF pc \in {"panicked", "save_panicked"} /\ Len(todo) < Len(TypeList)
    THEN Len(TypeList) - Len(todo)
    ELSE 0

\* The component of a resolved row is on the live entity the row went to,
\* next to the marker.
Attached(r) ==
    /\ r.live \in DOMAIN world
    /\ world[r.live].marker
    /\ r.ty \in DOMAIN world[r.live].comps

\* C14: when the sequence of a type cannot be decoded the load ends with the
\* error, no type after it in the list is decoded, and what earlier types
\* attached is still in the store.
C14_AbortNoRollback ==
    \A i \in 1 .. Len(TypeList) :
        (/\ Loaded
         /\ comp_name(TypeList[i]) \in DecodedNames \cap DOMAIN Doc
         /\ ~from_value_vec(comp_name(TypeList[i]), Doc[comp_name(TypeList[i])]).ok) =>
            /\ pc = "panicked"
            /\ Len(todo) = Len(TypeList) - i
            /\ cur = "none"
            /\ \A k \in 1 .. Len(resolved) : Attached(resolved[k])
            /\ \A j \in i + 1 .. Len(TypeList) :
                  /\ comp_name(TypeList[j]) \in DOMAIN Doc
                        => comp_name(TypeList[j]) \in DOMAIN component_value_map
                  /\ Holders(world, comp_name(TypeList[j])) = {}

\* A load that panicked after an earlier type attached components and with a
\* later type of the Document still to decode.
C14_Witness ==
    /\ pc = "panicked"
    /\ FailedAt > 1
    /\ resolved # <<>>
    /\ \A k \in 1 .. Len(resolved) : Attached(resolved[k])
    /\ DOMAIN component_value_map \cap RegisteredNames # {}

\* C16: when encoding the components of some type fails the save fails and
\* nothing is written, not even the keys of the types encoded before it.
C16_FailedSaveWritesNothing ==
    pc = "save_panicked" => save_data = NoDoc

\* A save that panicked after an earlier type of the list was encoded.
C16_Witness ==
    /\ pc = "save_panicked"
    /\ \E j \in 1 .. FailedAt - 1 : QueryIter(world, comp_name(TypeList[j])) # <<>>

\* The rows of a Document under a component name that are owned by raw.
RowsOwnedBy(doc, name, raw) ==
    {i \in 1 .. Len(RowsOf(doc, name)) : EntityDeserialize(RowsOf(doc, name)[i].a[1]).val = raw}

\* The components the rows of a Document give to raw, a later row of a type
\* replacing an earlier one.
CompsOf(doc, raw) ==
    [name \in {n \in RegisteredNames : RowsOwnedBy(doc, n, raw) # {}} |->
        LET last == CHOOSE i \in RowsOwnedBy(doc, name, raw) :
                        \A k \in RowsOwnedBy(doc, name, raw) : k <= i
        IN  from_value(name, RowsOf(doc, name)[last].a[2]).val]

\* The store and the table a finished load leaves for a Document: one entry
\* and one live entity per owner, each entity with the marker and the decoded
\* components of its rows, and nothing else.
LoadResultOf(doc) ==
    /\ DOMAIN entity_map = OwnerIds(doc)
    /\ Injective(entity_map)
    /\ DOMAIN world = Range(entity_map)
    /\ \A raw \in DOMAIN entity_map :
          world[entity_map[raw]] = [marker |-> TRUE, comps |-> CompsOf(doc, raw)]

\* C15: a key of the Document that names no type of the list does not make the
\* load fail, and the finished load leaves the store and the table that the
\* Document without that key determines.
C15_UnknownKeyIgnored ==
    Loaded =>
        /\ UnknownKey \in DOMAIN Doc => pc # "panicked"
        /\ pc = "done" => LoadResultOf([k \in DOMAIN Doc \ {UnknownKey} |-> Doc[k]])

\* A finished load of a Document with an unknown key whose row is owned by an
\* identity no registered row mentions.
C15_Witness ==
    /\ pc = "done"
    /\ UnknownKey \in DOMAIN Doc
    /\ world # EmptyWorld
    /\ EntityDeserialize(Doc[UnknownKey].a[1].a[1]).val \notin DOMAIN entity_map

\* C17: load_game starts with an empty table, and a step of the load leaves
\* the table as it is or adds one entry for a raw identity that had none;
\* entries are not removed and keep their live identity.
C17_TableMonotone ==
    [][/\ (pc = "saved" /\ pc' # "saved") => entity_map' = EmptyMap
       /\ pc = "loading" =>
            /\ DOMAIN entity_map \subseteq DOMAIN entity_map'
            /\ Cardinality(DOMAIN entity_map') <= Cardinality(DOMAIN entity_map) + 1
            /\ \A raw \in DOMAIN entity_map : entity_map'[raw] = entity_map[raw]]_vars

\* A load in which a row added an entry and another row found its owner in
\* the table.
C17_Witness ==
    /\ pc = "loading"
    /\ DOMAIN entity_map # {}
    /\ Len(resolved) > Cardinality(DOMAIN entity_map)

\* C18: when load_game has returned, every entity holding a component
\* carries the marker, and every row of a registered type has its decoded
\* component on the live entity the table gives to the row's owner.
C18_RowsAttachedWithMarker ==
    (pc = "done" /\ Loaded) =>
        /\ \A e \in DOMAIN world : DOMAIN world[e].comps # {} => world[e].marker
        /\ \A name \in RegisteredNames : \A i \in 1 .. Len(RowsOf(Doc, name)) :
              LET raw == EntityDeserialize(RowsOf(Doc, name)[i].a[1]).val
              IN  /\ raw \in DOMAIN entity_map
                  /\ entity_map[raw] \in DOMAIN world
                  /\ name \in DOMAIN world[entity_map[raw]].comps
                  /\ world[entity_map[raw]].comps[name]
                        = from_value(name, RowsOf(Doc, name)[i].a[2]).val

\* A finished load that gave one entity the components of two rows.
C18_Witness ==
    /\ pc = "done"
    /\ \E e \in DOMAIN world :
          world[e].marker /\ Cardinality(DOMAIN world[e].comps) >= 2

\* C19: a type of the list with no key in the Document is decoded without
\* error, and no component of it is attached and no row of it touches the
\* table.
C19_AbsentKeyIsEmpty ==
    \A i \in 1 .. Len(TypeList) :
        (/\ Loaded
         /\ comp_name(TypeList[i]) \in DecodedNames
         /\ comp_name(TypeList[i]) \notin DOMAIN Doc) =>
            /\ FailedAt # i
            /\ \A e \in DOMAIN world : comp_name(TypeList[i]) \notin DOMAIN world[e].comps
            /\ \A k \in 1 .. Len(resolved) : resolved[k].ty # comp_name(TypeList[i])

\* A finished load that attached components and whose Document lacks the key
\* of the first type of the list.
C19_Witness ==
    /\ pc = "done"
    /\ world # EmptyWorld
    /\ comp_name(TypeList[1]) \notin DOMAIN Doc

\* C20: when a row of a type's sequence does not decode, no row of that type
\* is applied: the load panics at that type, no component of it is attached
\* and the table has entries from the rows of other types only.
C20_DecodeAtomicPerType ==
    \A i \in 1 .. Len(TypeList) :
        (/\ Loaded
         /\ comp_name(TypeList[i]) \in DecodedNames \cap DOMAIN Doc
         /\ \E r \in 1 .. Len(Doc[comp_name(TypeList[i])].a) :
               ~RowOk(comp_name(TypeList[i]), Doc[comp_name(TypeList[i])].a[r])) =>
            /\ FailedAt = i
            /\ \A e \in DOMAIN world : comp_name(TypeList[i]) \notin DOMAIN world[e].comps
            /\ \A k \in 1 .. Len(resolved) : resolved[k].ty # comp_name(TypeList[i])
            /\ DOMAIN entity_map = {resolved[k].raw : k \in 1 .. Len(resolved)}

\* A load that panicked at a type whose sequence has a well-formed row before
\* the malformed one, the owner of that row having no entry in the table.
C20_Witness ==
    /\ pc = "panicked"
    /\ FailedAt > 0
    /\ LET name == comp_name(TypeList[FailedAt])
       IN  /\ name \in DOMAIN Doc
           /\ Len(Doc[name].a) >= 2
           /\ RowOk(name, Doc[name].a[1])
           /\ ~RowOk(name, Doc[name].a[Len(Doc[name].a)])
           /\ EntityDeserialize(Doc[name].a[1].a[1]).val \notin DOMAIN entity_map

Spec == Init /\ [][Next]_vars

====
